---------------------------- MODULE Spec2Model ----------------------------
(***************************************************************************)
(* State-machine model of src/shared/shell.c (BlueZ interactive shell).    *)
(*                                                                         *)
(* C strings are sequences of one-character strings.  Pointers are         *)
(* modelled by identity: the menu pointer is an index into Tables (0 is    *)
(* NULL), function pointers and user_data pointers are names ("NULL" is    *)
(* the null pointer).  Every C function is an operator from a shell state  *)
(* record to a shell state record; the record carries the fields of        *)
(* `data`, the file-scope statics, the part of readline's state the code   *)
(* reads or writes, the return value of the last call (ret) and the        *)
(* ordered log of observable effects of the step in progress (ev).         *)
(***************************************************************************)
EXTENDS Integers, Sequences, FiniteSets, TLC

\* ------------------------------------------------------------------ bounds
\* longest line the editor buffer may hold in the model
MaxLine == 4
\* most entries the history list may hold in the model
MaxHist == 1

\* ----------------------------------------------------------------- strings
S_empty == << >>
S_sp == <<" ">>
S_x == <<"x">>
S_go == <<"g", "o">>
S_quit == <<"q", "u", "i", "t">>
S_exit == <<"e", "x", "i", "t">>
S_help == <<"h", "e", "l", "p">>
S_version == <<"v", "e", "r", "s", "i", "o", "n">>

Min(a, b) == IF a < b THEN a ELSE b

\* strlen(text) bytes of a starting at offset i (1-based) equal b
MatchAt(a, i, b) == /\ i + Len(b) - 1 <= Len(a)
                    /\ \A k \in 1..Len(b) : a[i + k - 1] = b[k]

\* ------------------------------------------------------------ menu tables
\* struct bt_shell_menu_entry: cmd, func (NULL allowed), desc
Entry(cmd, func, desc) == [cmd |-> cmd, func |-> func, desc |-> desc]

default_menu == << Entry(S_version, "cmd_version", "Display version"),
                   Entry(S_quit, "cmd_quit", "Quit program"),
                   Entry(S_exit, "cmd_quit", "Quit program"),
                   Entry(S_help, "cmd_help", "Display help about this program") >>

\* The tables an embedding application may pass to bt_shell_set_menu
\* (entries before the { } sentinel).  Table 1 has no entry at all.
Tables == << << >>,
             << Entry(S_go, "ext_prompt", "Ask a question"),
                Entry(S_x, "ext_print", "Print something") >>,
             << Entry(S_quit, "ext_plain", "Shadow of quit"),
                Entry(S_help, "NULL", "Help without handler"),
                Entry(S_go, "ext_print", "Print something") >> >>

NullMenu == 0
MenuPtrs == 1..Len(Tables)
MenuEntries(m) == Tables[m]

\* prompt callbacks and contexts the application may pass
PromptFuncs == {"cb_plain", "cb_reprompt", "cb_print"}
UserDatas == {"ctx1", "ctx2"}
\* descriptors the application may attach
Fds == {"fd0", "fd3"}


\* ------------------------------------------------------------------- state
VARIABLES
    pc,               \* "init" (after bt_shell_init), "running", "done"
    main_loop,        \* static GMainLoop *main_loop: "NULL" or "loop"
    loop_quit,        \* g_main_loop_quit was called on the loop
    data_input,       \* data.input: "NULL" or the descriptor of the io
    saved_prompt,     \* data.saved_prompt
    saved_func,       \* data.saved_func
    saved_user_data,  \* data.saved_user_data
    menu,             \* data.menu: NullMenu or a pointer in MenuPtrs
    terminated,       \* static bool terminated of signal_read
    rl_line,          \* readline: rl_line_buffer[0..rl_end)
    rl_point,         \* readline: rl_point
    rl_prompt_saved,  \* readline: a prompt saved by rl_save_prompt is outstanding
    history,          \* readline: the history list, oldest first
    op,               \* the operation of the last step and its arguments
    ret,              \* the value the last call returned
    ev,               \* effects of the last step, in order
    gen_entry,        \* static entry of cmd_generator: "NULL", "default_menu" or a table
    gen_index,        \* static index of cmd_generator
    gen_len,          \* static len of cmd_generator
    sig_terms,        \* history: deliveries handled as terminate so far (0, 1, 2 = more)
    sig_quits         \* history: times signal_read called g_main_loop_quit

vars == << pc, main_loop, loop_quit, data_input, saved_prompt, saved_func,
           saved_user_data, menu, terminated, rl_line, rl_point,
           rl_prompt_saved, history, op, ret, ev, gen_entry, gen_index, gen_len,
           sig_terms, sig_quits >>

\* one observable effect: kind k, name f, text x, context c, cursor p
Ev(k, f, x, c, p) == [k |-> k, f |-> f, x |-> x, c |-> c, p |-> p]
Emit(s, k, f, x, c) == [s EXCEPT !.ev = Append(@, Ev(k, f, x, c, s.rl_point))]

\* the operation record of a step
Op(n, f, x, c) == [n |-> n, f |-> f, x |-> x, c |-> c]

\* the shell state at the start of a step, as the record the operators work on
Cur == [ main_loop |-> main_loop, loop_quit |-> loop_quit,
         input |-> data_input, saved_prompt |-> saved_prompt,
         saved_func |-> saved_func, saved_user_data |-> saved_user_data,
         menu |-> menu, terminated |-> terminated,
         rl_line |-> rl_line, rl_point |-> rl_point, rl_done |-> FALSE,
         rl_prompt_saved |-> rl_prompt_saved, history |-> history,
         gen_entry |-> gen_entry, gen_index |-> gen_index, gen_len |-> gen_len,
         ret |-> "void", ev |-> << >> ]

\* the step's result written back to the variables
Commit(t) == /\ main_loop' = t.main_loop
             /\ loop_quit' = t.loop_quit
             /\ data_input' = t.input
             /\ saved_prompt' = t.saved_prompt
             /\ saved_func' = t.saved_func
             /\ saved_user_data' = t.saved_user_data
             /\ menu' = t.menu
             /\ terminated' = t.terminated
             /\ rl_line' = t.rl_line
             /\ rl_point' = t.rl_point
             /\ rl_prompt_saved' = t.rl_prompt_saved
             /\ history' = t.history
             /\ ret' = t.ret
             /\ ev' = t.ev
             /\ gen_entry' = t.gen_entry
             /\ gen_index' = t.gen_index
             /\ gen_len' = t.gen_len

\* ------------------------------------------------- line editor and reactor
\* rl_replace_line(text, 0): new buffer, rl_point clamped into it
rl_replace_line(s, text) ==
    Emit([s EXCEPT !.rl_line = text, !.rl_point = Min(@, Len(text))],
         "rl", "rl_replace_line", text, "")

\* rl_save_prompt(): the displayed prompt moves to the one save slot
rl_save_prompt(s) ==
    Emit([s EXCEPT !.rl_prompt_saved = TRUE], "rl", "rl_save_prompt", << >>, "")

\* rl_restore_prompt(): the save slot is emptied
rl_restore_prompt(s) ==
    Emit([s EXCEPT !.rl_prompt_saved = FALSE], "rl", "rl_restore_prompt", << >>, "")

\* display-only calls: rl_redisplay, rl_crlf, rl_on_new_line, rl_message, ...
rl_display(s, f) == Emit(s, "rl", f, << >>, "")

\* rl_insert_text(text): text goes in at rl_point, the cursor after it
rl_insert_text(s, text) ==
    Emit([s EXCEPT !.rl_line = SubSeq(@, 1, s.rl_point) \o text
                                \o SubSeq(@, s.rl_point + 1, Len(@)),
                   !.rl_point = @ + Len(text)],
         "rl", "rl_insert_text", text, "")

\* g_main_loop_quit(main_loop): a NULL loop is rejected by GLib's precondition
g_main_loop_quit(s) ==
    IF s.main_loop = "NULL" THEN s
    ELSE Emit([s EXCEPT !.loop_quit = TRUE], "quit", "g_main_loop_quit", << >>, "")

\* --------------------------------------------------------------- output
printf_save_always(s, save_input) ==
    IF ~save_input THEN s
    ELSE rl_display(rl_replace_line(rl_save_prompt(
             Emit(s, "rl", "rl_copy_text", s.rl_line, "")), << >>), "rl_redisplay")

\* "if (save_input) { saved_point = ...; saved_line = ...; if (!data.saved_prompt) ... }"
printf_save(s, save_input) ==
    IF ~save_input THEN s
    ELSE IF s.saved_prompt THEN Emit(s, "rl", "rl_copy_text", s.rl_line, "")
    ELSE rl_display(rl_replace_line(rl_save_prompt(
             Emit(s, "rl", "rl_copy_text", s.rl_line, "")), << >>), "rl_redisplay")

\* "vprintf(fmt, args)"
printf_write(s, text) == Emit(s, "out", text, << >>, "")

\* "if (!data.saved_prompt) rl_restore_prompt()"
printf_restore_prompt(s) == IF s.saved_prompt THEN s ELSE rl_restore_prompt(s)

\* "rl_point = saved_point"
set_rl_point(s, point) == [s EXCEPT !.rl_point = point]

printf_norestore(s, save_input, saved_line, saved_point) ==
    IF ~save_input THEN s ELSE printf_restore_prompt(s)

printf_restore_point_at_end(s, save_input, saved_line, saved_point) ==
    IF ~save_input THEN s
    ELSE rl_display(set_rl_point(rl_replace_line(printf_restore_prompt(s), saved_line),
                                 Len(saved_line)),
                    "rl_forced_update_display")

\* "if (save_input) { ...; rl_replace_line(saved_line, 0); rl_point = saved_point; ... }"
printf_restore(s, save_input, saved_line, saved_point) ==
    IF ~save_input THEN s
    ELSE rl_display(set_rl_point(rl_replace_line(printf_restore_prompt(s), saved_line),
                                 saved_point),
                    "rl_forced_update_display")

\* the line and cursor seen on entry to and on return from bt_shell_printf
printf_enter(s) == Emit(s, "enter", "bt_shell_printf", s.rl_line, "")
printf_leave(s) == Emit(s, "leave", "bt_shell_printf", s.rl_line, "")

bt_shell_printf(s, text) ==
    printf_leave(printf_restore(printf_write(printf_save(printf_enter(s), ~s.rl_done),
                                             text),
                                ~s.rl_done, s.rl_line, s.rl_point))

\* rows bt_shell_hexdump prints for len bytes: one per full 16, one for the rest
HexRows(len) == (len \div 16) + (IF len % 16 > 0 THEN 1 ELSE 0)

RECURSIVE PrintRows(_, _)
PrintRows(s, n) == IF n = 0 THEN s
                   ELSE PrintRows(bt_shell_printf(s, "hexdump row"), n - 1)

bt_shell_hexdump(s, len) == IF len = 0 THEN s ELSE PrintRows(s, HexRows(len))

\* ------------------------------------------------------- prompt override
bt_shell_prompt_input_overwrite(s, func, user_data) ==
    [rl_display(rl_save_prompt(s), "rl_message")
        EXCEPT !.saved_prompt = TRUE, !.saved_func = func,
               !.saved_user_data = user_data]

bt_shell_prompt_input(s, func, user_data) ==
    IF s.saved_prompt THEN s
    ELSE [rl_display(rl_save_prompt(s), "rl_message")
            EXCEPT !.saved_prompt = TRUE, !.saved_func = func,
                   !.saved_user_data = user_data]

\* what the application's prompt callbacks do with the shell
PromptCallback(s, func, input, user_data) ==
    CASE func = "cb_print" -> bt_shell_printf(s, "callback output")
      [] func = "cb_reprompt" -> bt_shell_prompt_input(s, "cb_plain", user_data)
      [] OTHER -> s

\* "func(input, user_data)"
release_invoke(s, func, input, user_data) ==
    PromptCallback(Emit(s, "call", func, input, user_data), func, input, user_data)

\* "func = data.saved_func; ...; data.saved_func = NULL; ...; func(input, user_data)"
release_clear_invoke(s, input) ==
    release_invoke([s EXCEPT !.saved_func = "NULL", !.saved_user_data = "NULL"],
                   s.saved_func, input, s.saved_user_data)

release_always_invoke(s, input) ==
    [release_clear_invoke(rl_restore_prompt([s EXCEPT !.saved_prompt = FALSE]), input)
        EXCEPT !.ret = "0"]

release_keep_pending(s, input) ==
    IF ~s.saved_prompt THEN [s EXCEPT !.ret = "-1"]
    ELSE [release_invoke(rl_restore_prompt(s), s.saved_func, input, s.saved_user_data)
            EXCEPT !.ret = "0"]

bt_shell_release_prompt(s, input) ==
    IF ~s.saved_prompt THEN [s EXCEPT !.ret = "-1"]
    ELSE [release_clear_invoke(rl_restore_prompt([s EXCEPT !.saved_prompt = FALSE]),
                               input)
            EXCEPT !.ret = "0"]

\* --------------------------------------------------------- menu registry
RECURSIVE PrintEntries(_, _, _)
\* the loop "for (entry = table; entry->cmd; entry++) print_menu(...)"
PrintEntries(s, table, i) ==
    IF i > Len(table) THEN s
    ELSE PrintEntries(Emit(s, "menu", table[i].desc, table[i].cmd, ""), table, i + 1)

shell_print_menu_external_only(s) ==
    IF s.menu = NullMenu THEN s
    ELSE LET h1 == Emit(s, "out", "Available commands:", << >>, "")
             h2 == Emit(h1, "out", "-------------------", << >>, "")
         IN  PrintEntries(h2, MenuEntries(s.menu), 1)

shell_print_menu(s) ==
    IF s.menu = NullMenu THEN s
    ELSE LET h1 == Emit(s, "out", "Available commands:", << >>, "")
             h2 == Emit(h1, "out", "-------------------", << >>, "")
         IN  PrintEntries(PrintEntries(h2, MenuEntries(s.menu), 1), default_menu, 1)

cmd_version(s, arg) == bt_shell_printf(s, "Version")
cmd_quit(s, arg) == g_main_loop_quit(s)
cmd_help(s, arg) == shell_print_menu(s)

\* entry->func(arg): the built-in handlers, and what the application's
\* handlers do with the shell
Handler(s, func, arg) ==
    CASE func = "cmd_version" -> cmd_version(s, arg)
      [] func = "cmd_quit" -> cmd_quit(s, arg)
      [] func = "cmd_help" -> cmd_help(s, arg)
      [] func = "ext_print" -> bt_shell_printf(s, "handler output")
      [] func = "ext_prompt" -> bt_shell_prompt_input(s, "cb_print", "ctx1")
      [] OTHER -> s

\* index of the first entry of table named cmd that has a handler, 0 if none
FindEntry(table, cmd) ==
    LET I == {i \in 1..Len(table) : table[i].cmd = cmd /\ table[i].func # "NULL"}
    IN  IF I = {} THEN 0 ELSE CHOOSE i \in I : \A j \in I : i <= j

FindEntry_anyfunc(table, cmd) ==
    LET I == {i \in 1..Len(table) : table[i].cmd = cmd}
    IN  IF I = {} THEN 0 ELSE CHOOSE i \in I : \A j \in I : i <= j

shell_exec_builtin_first(s, cmd, arg) ==
    IF s.menu = NullMenu THEN s
    ELSE LET e == Emit(s, "exec", "shell_exec", cmd, "")
             ext == MenuEntries(s.menu)
             i == FindEntry(ext, cmd)
             j == FindEntry(default_menu, cmd)
             func == IF j # 0 THEN default_menu[j].func
                     ELSE IF i # 0 THEN ext[i].func ELSE "NULL"
             from == IF j # 0 THEN "builtin" ELSE "external"
         IN  IF func # "NULL"
             THEN Handler(Emit(e, "call", func, arg, from), func, arg)
             ELSE Emit(e, "out", "Invalid command", << >>, "")

shell_exec_nomenu_ok(s, cmd, arg) ==
    LET e == Emit(s, "exec", "shell_exec", cmd, "")
        ext == IF s.menu = NullMenu THEN << >> ELSE MenuEntries(s.menu)
        i == FindEntry(ext, cmd)
        j == FindEntry(default_menu, cmd)
        func == IF i # 0 THEN ext[i].func
                ELSE IF j # 0 THEN default_menu[j].func ELSE "NULL"
        from == IF i # 0 THEN "external" ELSE "builtin"
    IN  IF func # "NULL"
        THEN Handler(Emit(e, "call", func, arg, from), func, arg)
        ELSE Emit(e, "out", "Invalid command", << >>, "")

shell_exec_silent(s, cmd, arg) ==
    IF s.menu = NullMenu THEN s
    ELSE LET e == Emit(s, "exec", "shell_exec", cmd, "")
             ext == MenuEntries(s.menu)
             i == FindEntry(ext, cmd)
             j == FindEntry(default_menu, cmd)
             func == IF i # 0 THEN ext[i].func
                     ELSE IF j # 0 THEN default_menu[j].func ELSE "NULL"
             from == IF i # 0 THEN "external" ELSE "builtin"
         IN  IF func # "NULL"
             THEN Handler(Emit(e, "call", func, arg, from), func, arg)
             ELSE e

shell_exec(s, cmd, arg) ==
    IF s.menu = NullMenu THEN s
    ELSE LET e == Emit(s, "exec", "shell_exec", cmd, "")
             ext == MenuEntries(s.menu)
             i == FindEntry(ext, cmd)
             j == FindEntry(default_menu, cmd)
             func == IF i # 0 THEN ext[i].func
                     ELSE IF j # 0 THEN default_menu[j].func ELSE "NULL"
             from == IF i # 0 THEN "external" ELSE "builtin"
         IN  IF func # "NULL"
             THEN Handler(Emit(e, "call", func, arg, from), func, arg)
             ELSE Emit(e, "out", "Invalid command", << >>, "")

bt_shell_set_menu_replace(s, m) ==
    IF m = NullMenu THEN [s EXCEPT !.ret = "false"]
    ELSE [s EXCEPT !.menu = m, !.ret = "true"]

bt_shell_set_menu(s, m) ==
    IF s.menu # NullMenu \/ m = NullMenu THEN [s EXCEPT !.ret = "false"]
    ELSE [s EXCEPT !.menu = m, !.ret = "true"]

\* ------------------------------------------------- line-completion pipeline
\* strtok_r(input, " ", &arg): offsets of the first token, 0 when there is none
TokStart(line) ==
    LET I == {i \in 1..Len(line) : line[i] # " "}
    IN  IF I = {} THEN 0 ELSE CHOOSE i \in I : \A j \in I : i <= j

\* offset of the delimiter that ends the token starting at i, Len + 1 if none
TokEnd(line, i) ==
    LET J == {j \in i..Len(line) : line[j] = " "}
    IN  IF J = {} THEN Len(line) + 1 ELSE CHOOSE j \in J : \A k \in J : j <= k

strtok_cmd(line) == SubSeq(line, TokStart(line), TokEnd(line, TokStart(line)) - 1)

strtok_arg_skip_run(line) ==
    LET e == TokEnd(line, TokStart(line))
        R == {i \in e..Len(line) : line[i] # " "}
    IN  IF R = {} THEN << >>
        ELSE SubSeq(line, CHOOSE i \in R : \A j \in R : i <= j, Len(line))

\* the save pointer: one past the delimiter that was overwritten, or the end
strtok_arg(line) ==
    LET e == TokEnd(line, TokStart(line))
    IN  IF e > Len(line) THEN << >> ELSE SubSeq(line, e + 1, Len(line))

\* "if (len > 0 && arg[len - 1] == ' ') arg[len - 1] = '\0'"
StripTrailingSpace(arg) ==
    IF Len(arg) > 0 /\ arg[Len(arg)] = " " THEN SubSeq(arg, 1, Len(arg) - 1)
    ELSE arg

\* history_search(string, -1) with the history position at the end of the
\* list: the newest entry holding string as a substring decides; the result
\* is the offset of its last occurrence there, -1 when no entry holds it
history_search(h, string) ==
    LET hits == {i \in 1..Len(h) : \E k \in 1..Len(h[i]) : MatchAt(h[i], k, string)}
    IN  IF Len(string) = 0 \/ hits = {} THEN -1
        ELSE LET i == CHOOSE a \in hits : \A b \in hits : b <= a
                 ks == {k \in 1..Len(h[i]) : MatchAt(h[i], k, string)}
             IN  (CHOOSE a \in ks : \A b \in ks : b <= a) - 1

add_history(s, line) ==
    Emit([s EXCEPT !.history = Append(@, line)], "hist", "add_history", line, "")

\* "cmd = strtok_r(input, " ", &arg); if (!cmd) goto done; ...; shell_exec(cmd, arg)"
rl_handler_exec(s, input) ==
    IF TokStart(input) = 0 THEN s
    ELSE shell_exec(s, strtok_cmd(input), StripTrailingSpace(strtok_arg(input)))

history_always_add(s, input) == add_history(s, input)

history_skip_any_match(s, input) ==
    IF history_search(s.history, input) = -1 THEN add_history(s, input) ELSE s

\* "if (history_search(input, -1)) add_history(input)"
rl_handler_history(s, input) ==
    IF history_search(s.history, input) # 0 THEN add_history(s, input) ELSE s

rl_handler_ignore_release(s, input) ==
    rl_handler_exec(Emit(rl_handler_history(s, input), "tok", "strtok_r", input, ""),
                    input)

\* "if (!bt_shell_release_prompt(input)) goto done;" and what follows it
rl_handler_released(s, input) ==
    IF s.ret = "0" THEN s
    ELSE rl_handler_exec(Emit(rl_handler_history(s, input), "tok", "strtok_r", input, ""),
                         input)

\* the value bt_shell_release_prompt returned to rl_handler
release_returned(s) == Emit(s, "ret", "bt_shell_release_prompt", << >>, s.ret)

rl_handler_nolencheck(s, input, eof) ==
    IF eof
    THEN g_main_loop_quit(rl_display(rl_display(rl_insert_text(s, S_quit),
                                                "rl_redisplay"), "rl_crlf"))
    ELSE rl_handler_released(release_returned(bt_shell_release_prompt(s, input)), input)

rl_handler(s, input, eof) ==
    IF eof
    THEN g_main_loop_quit(rl_display(rl_display(rl_insert_text(s, S_quit),
                                                "rl_redisplay"), "rl_crlf"))
    ELSE IF Len(input) = 0 THEN s
    ELSE rl_handler_released(release_returned(bt_shell_release_prompt(s, input)), input)

\* after the handler: RL_STATE_DONE is cleared and the buffer reset
rl_newline_reset(s) ==
    [s EXCEPT !.rl_done = FALSE, !.rl_line = << >>, !.rl_point = 0, !.ret = "true"]

\* rl_callback_read_char() on a completed line: the line is handed to the
\* installed handler with RL_STATE_DONE set, then the buffer is reset
AcceptLine(s, eof) ==
    rl_newline_reset(rl_handler([s EXCEPT !.rl_done = TRUE], s.rl_line, eof))

\* ------------------------------------------------------------- completion
\* the table the static entry of cmd_generator points to
GenEntries(e) ==
    IF e = "default_menu" THEN default_menu
    ELSE IF e = "NULL" THEN << >>
    ELSE Tables[CHOOSE m \in MenuPtrs : ToString(m) = e]

\* "!strncmp(cmd, text, len)": the first len characters agree
strncmp_eq(cmd, text, len) == MatchAt(cmd, 1, SubSeq(text, 1, Min(len, Len(text))))

RECURSIVE cmd_generator_scan(_, _)
\* "while ((cmd = entry[index].cmd)) { index++; if (!strncmp(...)) return strdup(cmd); }"
\* ret is "match" when a name was returned and "NULL" at the sentinel
cmd_generator_scan(s, text) ==
    IF s.gen_index >= Len(GenEntries(s.gen_entry)) THEN [s EXCEPT !.ret = "NULL"]
    ELSE LET cmd == GenEntries(s.gen_entry)[s.gen_index + 1].cmd
             n == [s EXCEPT !.gen_index = @ + 1]
         IN  IF strncmp_eq(cmd, text, s.gen_len)
             THEN [Emit(n, "match", "cmd_generator", cmd, s.gen_entry) EXCEPT !.ret = "match"]
             ELSE cmd_generator_scan(n, text)

\* "if (!state) { entry = default_menu; index = 0; len = strlen(text); }"
cmd_generator_reset(s, text, state) ==
    IF state = 0
    THEN [s EXCEPT !.gen_entry = "default_menu", !.gen_index = 0, !.gen_len = Len(text)]
    ELSE s

\* "if (state) return NULL; entry = data.menu; index = 0; return cmd_generator(text, 1);"
cmd_generator_external(s, text, state) ==
    IF s.ret = "match" \/ state # 0 THEN s
    ELSE cmd_generator_scan([s EXCEPT !.gen_entry = ToString(s.menu), !.gen_index = 0],
                            text)

cmd_generator(s, text, state) ==
    cmd_generator_external(cmd_generator_scan(cmd_generator_reset(s, text, state), text),
                           text, state)

RECURSIVE rl_completion_matches(_, _, _)
\* rl_completion_matches(text, cmd_generator): the generator is called with
\* state 0, 1, 2, ... until it returns NULL
rl_completion_matches(s, text, state) ==
    LET n == cmd_generator(s, text, state)
    IN  IF n.ret = "NULL" THEN n ELSE rl_completion_matches(n, text, state + 1)

\* the names a completion cycle returned, in order
Candidates(e) ==
    LET c == SelectSeq(e, LAMBDA v : v.k = "match")
    IN  [i \in DOMAIN c |-> c[i].x]

\* offset (0-based) where the word that ends at the cursor starts
WordStart(line, point) ==
    LET B == {i \in 1..point : line[i] = " "}
    IN  IF B = {} THEN 0 ELSE CHOOSE i \in B : \A j \in B : j <= i

\* longest common prefix of the names in c (c is not empty)
CommonPrefix(c) ==
    LET L == {n \in 0..Len(c[1]) :
                \A i \in DOMAIN c : Len(c[i]) >= n /\ SubSeq(c[i], 1, n) = SubSeq(c[1], 1, n)}
    IN  SubSeq(c[1], 1, CHOOSE n \in L : \A k \in L : k <= n)

\* readline after the matches are known: the word is replaced by the common
\* prefix of the candidates, a single candidate is followed by a space
rl_insert_match(s, start, c) ==
    IF c = << >> THEN s
    ELSE LET one == \A i \in DOMAIN c : c[i] = c[1]
             word == CommonPrefix(c) \o (IF one THEN S_sp ELSE << >>)
         IN  Emit([s EXCEPT !.rl_line = SubSeq(@, 1, start) \o word
                                         \o SubSeq(@, s.rl_point + 1, Len(@)),
                            !.rl_point = start + Len(word)],
                  "rl", "insert_match", word, "")

\* shell_completion(text, start, end) for the word at the cursor.  No entry
\* of the modelled tables has a gen callback, so past column 0
\* menu_completion finds no matches.
shell_completion(s) ==
    LET start == WordStart(s.rl_line, s.rl_point)
        text == SubSeq(s.rl_line, start + 1, s.rl_point)
    IN  IF s.menu = NullMenu \/ start > 0 THEN s
        ELSE rl_completion_matches(Emit(s, "comp", "rl_completion_matches", text, ""),
                                   text, 0)

\* the TAB key: rl_complete calls shell_completion and inserts what it found
rl_complete(s) ==
    LET n == shell_completion(s)
    IN  [rl_insert_match(n, WordStart(s.rl_line, s.rl_point), Candidates(n.ev))
            EXCEPT !.ret = "true"]

\* -------------------------------------------------- I/O and signal handlers
\* what one readiness notification of the input descriptor may carry
Bursts == {S_quit, S_help, S_go, S_sp, S_x}
Keys == {"TEXT", "LEFT", "TAB", "NL", "EOF"}

\* input_read: rl_callback_read_char() on typed text, a cursor key, the
\* completion key, a newline or end-of-stream (end-of-stream on a non-empty
\* line is a newline)
input_read(s, key, text) ==
    CASE key = "TEXT" -> [rl_insert_text(s, text) EXCEPT !.ret = "true"]
      [] key = "LEFT" -> [s EXCEPT !.rl_point = IF @ > 0 THEN @ - 1 ELSE @,
                                   !.ret = "true"]
      [] key = "TAB" -> rl_complete(s)
      [] OTHER -> AcceptLine(s, key = "EOF" /\ Len(s.rl_line) = 0)

io_hup(s) == [g_main_loop_quit(s) EXCEPT !.ret = "false"]

Signals == {"SIGINT", "SIGTERM", "short read"}

signal_read_noflag(s, signo) ==
    LET term(t) == g_main_loop_quit(rl_display(rl_replace_line(t, << >>), "rl_crlf"))
    IN  [(IF signo = "short read" THEN s
          ELSE IF signo = "SIGINT" /\ s.input # "NULL"
          THEN rl_display(rl_display(rl_display(rl_replace_line(s, << >>),
                          "rl_crlf"), "rl_on_new_line"), "rl_redisplay")
          ELSE term(s)) EXCEPT !.ret = "false"]

signal_read_sigint_quits(s, signo) ==
    LET term(t) == [(IF ~t.terminated
                     THEN g_main_loop_quit(rl_display(rl_replace_line(t, << >>),
                                                      "rl_crlf"))
                     ELSE t) EXCEPT !.terminated = TRUE]
    IN  [(IF signo = "short read" THEN s ELSE term(s)) EXCEPT !.ret = "false"]

signal_read(s, signo) ==
    LET term(t) == [(IF ~t.terminated
                     THEN g_main_loop_quit(rl_display(rl_replace_line(t, << >>),
                                                      "rl_crlf"))
                     ELSE t) EXCEPT !.terminated = TRUE]
    IN  [(IF signo = "short read" THEN s
          ELSE IF signo = "SIGINT" /\ s.input # "NULL"
          THEN rl_display(rl_display(rl_display(rl_replace_line(s, << >>),
                          "rl_crlf"), "rl_on_new_line"), "rl_redisplay")
          ELSE term(s)) EXCEPT !.ret = "false"]

bt_shell_attach_rebind(s, fd) ==
    [Emit(s, "io", "io_new", << >>, fd) EXCEPT !.input = fd, !.ret = "true"]

bt_shell_attach(s, fd) ==
    IF s.input # "NULL" THEN [s EXCEPT !.ret = "false"]
    ELSE [Emit(s, "io", "io_new", << >>, fd) EXCEPT !.input = fd, !.ret = "true"]

bt_shell_detach(s) ==
    IF s.input = "NULL" THEN [s EXCEPT !.ret = "false"]
    ELSE [Emit(s, "io", "io_destroy", << >>, s.input)
            EXCEPT !.input = "NULL", !.ret = "true"]

\* the part of bt_shell_run after g_main_loop_run returns
\* "io_destroy(signal); g_main_loop_unref(main_loop); main_loop = NULL; rl_cleanup()"
run_teardown(s) ==
    [rl_display(rl_display(
        Emit([Emit(s, "io", "io_destroy", << >>, "signal") EXCEPT !.main_loop = "NULL"],
             "loop", "g_main_loop_unref", << >>, ""),
        "rl_message"), "rl_callback_handler_remove")
     EXCEPT !.ret = "void"]

bt_shell_run_exit_detach_first(s) ==
    run_teardown(bt_shell_release_prompt(bt_shell_detach(s), << >>))

bt_shell_run_exit(s) ==
    run_teardown(bt_shell_detach(bt_shell_release_prompt(s, << >>)))

\* ----------------------------------------------------------------- actions
\* Every action is one call into the shell (from the application or from the
\* reactor) run to completion.  The parameters name the inputs a scenario
\* draws from.
Live == pc \in {"init", "running"}
Running == pc = "running"

\* the effects of kind k among e
Kind(e, k) == SelectSeq(e, LAMBDA v : v.k = k)

\* signal_read handles signo as a terminate signal: SIGTERM, or SIGINT while
\* no input is bound
TermDelivery(o) ==
    /\ o.n = "signal_read"
    /\ o.f = "SIGTERM" \/ (o.f = "SIGINT" /\ data_input = "NULL")

\* one step: operation o took the shell to t and the life cycle to p
Step(o, t, p) ==
    /\ Commit(t)
    /\ op' = o
    /\ pc' = p
    /\ sig_terms' = IF TermDelivery(o) THEN Min(sig_terms + 1, 2) ELSE sig_terms
    /\ sig_quits' = IF o.n = "signal_read" THEN sig_quits + Len(Kind(t.ev, "quit"))
                    ELSE sig_quits

SetMenu(ptrs) ==
    /\ Live
    /\ \E m \in ptrs : \E t \in {bt_shell_set_menu(Cur, m)} :
         Step(Op("bt_shell_set_menu", "", << >>, ToString(m)), t, pc)

Attach(fds) ==
    /\ Live
    /\ \E fd \in fds : \E t \in {bt_shell_attach(Cur, fd)} :
         Step(Op("bt_shell_attach", "", << >>, fd), t, pc)

Detach ==
    /\ Live
    /\ \E t \in {bt_shell_detach(Cur)} :
         Step(Op("bt_shell_detach", "", << >>, ""), t, pc)

PromptInput(funcs, user_datas) ==
    /\ Live
    /\ \E func \in funcs, user_data \in user_datas :
         \E t \in {bt_shell_prompt_input(Cur, func, user_data)} :
           Step(Op("bt_shell_prompt_input", func, << >>, user_data), t, pc)

ReleasePrompt(inputs) ==
    /\ Live
    /\ \E input \in inputs : \E t \in {bt_shell_release_prompt(Cur, input)} :
         Step(Op("bt_shell_release_prompt", "", input, ""), t, pc)

\* op.x is the buffer the call found
Printf ==
    /\ Live
    /\ \E t \in {bt_shell_printf(Cur, "text")} :
         Step(Op("bt_shell_printf", "", rl_line, ""), t, pc)

Hexdump(lens) ==
    /\ Live
    /\ \E len \in lens : \E t \in {bt_shell_hexdump(Cur, len)} :
         Step(Op("bt_shell_hexdump", "", rl_line, ToString(len)), t, pc)

\* bt_shell_run up to g_main_loop_run: the signal descriptor is bound and
\* the loop starts dispatching
RunStart ==
    /\ pc = "init"
    /\ \E t \in {[Emit(Cur, "io", "io_new", << >>, "signal") EXCEPT !.loop_quit = FALSE]} :
         Step(Op("bt_shell_run", "", << >>, ""), t, "running")

\* the history list is bounded: a line that would be recorded needs room
HistoryRoom(line, cap) ==
    \/ Len(history) < cap
    \/ Len(line) = 0
    \/ saved_prompt
    \/ history_search(history, line) = 0

\* the input descriptor is readable: typed text (at most cap characters in
\* the buffer), a cursor key, the completion key, a newline or end-of-stream
\* (at most hcap entries in the history); op.x is the typed text or the line
\* the key found.  With no table attached shell_completion leaves the word
\* to readline's file name completion, which reads the file system: the
\* completion key is pressed with a table attached.
InputRead(keys, bursts, cap, hcap) ==
    /\ Running
    /\ data_input # "NULL"
    /\ \E key \in keys, text \in bursts :
         /\ key = "TEXT" => Len(rl_line) + Len(text) <= cap
         /\ key # "TEXT" => text = CHOOSE b \in bursts : TRUE
         /\ key = "LEFT" => rl_point > 0
         /\ key = "TAB" => menu # NullMenu
         /\ key \in {"NL", "EOF"} => HistoryRoom(rl_line, hcap)
         /\ \E t \in {input_read(Cur, key, text)} :
              Step(Op("input_read", key, IF key = "TEXT" THEN text ELSE rl_line, ""),
                   t, pc)

IoHup ==
    /\ Running
    /\ \E t \in {io_hup(Cur)} : Step(Op("io_hup", "", << >>, ""), t, pc)

\* op.x is the buffer the signal found
SignalRead(signos) ==
    /\ Running
    /\ \E signo \in signos : \E t \in {signal_read(Cur, signo)} :
         Step(Op("signal_read", signo, rl_line, ""), t, pc)

\* g_main_loop_run returns once the loop was asked to quit
RunExit ==
    /\ Running
    /\ loop_quit
    /\ \E t \in {bt_shell_run_exit(Cur)} :
         Step(Op("bt_shell_run_exit", "", << >>, ""), t, "done")

\* the state bt_shell_init leaves: the loop created, the handler installed
Init == /\ pc = "init"
        /\ main_loop = "loop"
        /\ loop_quit = FALSE
        /\ data_input = "NULL"
        /\ saved_prompt = FALSE
        /\ saved_func = "NULL"
        /\ saved_user_data = "NULL"
        /\ menu = NullMenu
        /\ terminated = FALSE
        /\ rl_line = << >>
        /\ rl_point = 0
        /\ rl_prompt_saved = FALSE
        /\ history = << >>
        /\ op = Op("bt_shell_init", "", << >>, "")
        /\ ret = "void"
        /\ ev = << >>
        /\ gen_entry = "NULL"
        /\ gen_index = 0
        /\ gen_len = 0
        /\ sig_terms = 0
        /\ sig_quits = 0

\* ----------------------------------------------------------- specifications
\* The whole machine: every operation with every input of the model.
NextAll == \/ SetMenu({NullMenu} \cup MenuPtrs)
           \/ Attach(Fds)
           \/ Detach
           \/ PromptInput(PromptFuncs, UserDatas)
           \/ ReleasePrompt({S_empty, S_x})
           \/ Printf
           \/ Hexdump({0, 16, 17})
           \/ RunStart
           \/ InputRead(Keys, Bursts, MaxLine, MaxHist)
           \/ IoHup
           \/ SignalRead(Signals)
           \/ RunExit

SpecAll == Init /\ [][NextAll]_vars

\* Prompt scenario: prompt requests and releases from the application, from
\* command handlers and from the line-completion pipeline, with one table.
NextPrompt == \/ SetMenu({2})
              \/ Attach({"fd0"})
              \/ PromptInput(PromptFuncs, UserDatas)
              \/ ReleasePrompt({S_empty, S_x})
              \/ RunStart
              \/ InputRead({"TEXT", "NL"}, {S_go, S_quit}, MaxLine, MaxHist)

SpecPrompt == Init /\ [][NextPrompt]_vars

\* Menu scenario: tables are attached at any time and lines made of command
\* names are completed.
NextMenu == \/ SetMenu({NullMenu} \cup MenuPtrs)
            \/ Attach({"fd0"})
            \/ RunStart
            \/ InputRead({"TEXT", "NL"}, {S_quit, S_help, S_go}, MaxLine, MaxHist)

SpecMenu == Init /\ [][NextMenu]_vars

\* Blank-line scenario: lines made of a command name and of spaces are
\* completed with any table, or none, attached.
NextBlank == \/ SetMenu({NullMenu} \cup MenuPtrs)
             \/ Attach({"fd0"})
             \/ RunStart
             \/ InputRead({"TEXT", "NL"}, {S_quit, S_sp}, MaxLine, MaxHist)

SpecBlank == Init /\ [][NextBlank]_vars

\* Life-cycle scenario: descriptors are attached and detached, signals and
\* disconnects arrive, the loop runs and is torn down.
NextLife == \/ Attach(Fds)
            \/ Detach
            \/ PromptInput({"cb_plain", "cb_reprompt"}, {"ctx1"})
            \/ RunStart
            \/ InputRead({"TEXT", "EOF"}, {S_x}, MaxLine, MaxHist)
            \/ SignalRead(Signals)
            \/ IoHup
            \/ RunExit

SpecLife == Init /\ [][NextLife]_vars

\* Editing scenario: text is typed and the cursor moved while output is
\* written by the application and by prompt callbacks.  A line is completed
\* only as the answer to a pending prompt (or empty), so none is recorded.
NextEdit == \/ Attach({"fd0"})
            \/ RunStart
            \/ InputRead({"TEXT", "LEFT", "NL"}, {S_go, S_x}, MaxLine, 0)
            \/ PromptInput({"cb_print", "cb_plain"}, {"ctx1"})
            \/ ReleasePrompt({S_x})
            \/ Printf
            \/ Hexdump({0, 16, 17})

SpecEdit == Init /\ [][NextEdit]_vars

\* History scenario: lines are typed at the end of the buffer and completed
\* with no prompt pending, so every non-empty line reaches the history test.
NextHist == \/ SetMenu({1})
            \/ Attach({"fd0"})
            \/ RunStart
            \/ InputRead({"TEXT", "NL"}, {S_go, S_x}, MaxLine, MaxHist + 1)

SpecHist == Init /\ [][NextHist]_vars

\* Completion scenario: words are typed and the completion key pressed with
\* any table attached.
NextComp == \/ SetMenu({NullMenu} \cup MenuPtrs)
            \/ Attach({"fd0"})
            \/ RunStart
            \/ InputRead({"TEXT", "TAB"}, {<<"q">>, <<"e">>, <<"g">>, S_x}, MaxLine, MaxHist)

SpecComp == Init /\ [][NextComp]_vars

\* Blank-answer scenario: empty lines, lines of spaces and commands are
\* completed while prompts are requested and answered.
NextDiscard == \/ SetMenu({2})
               \/ Attach({"fd0"})
               \/ RunStart
               \/ PromptInput({"cb_plain", "cb_reprompt"}, {"ctx1"})
               \/ InputRead({"TEXT", "NL"}, {S_sp, S_go}, MaxLine, MaxHist)

SpecDiscard == Init /\ [][NextDiscard]_vars

\* Tokenizer scenario: lines of a one-letter command and spaces, in any
\* arrangement, are completed with a table that names the command.  One
\* history entry is kept: what the history holds does not reach the tokenizer.
NextTok == \/ SetMenu({2})
           \/ Attach({"fd0"})
           \/ RunStart
           \/ InputRead({"TEXT", "NL"}, {S_x, S_sp}, MaxLine, 1)

SpecTok == Init /\ [][NextTok]_vars

\* Decoration scenario: prompts are requested and released by the
\* application, by command handlers and by prompt callbacks, and output is
\* written by all of them.  One history entry is kept: what the history
\* holds does not reach the prompt decoration.
NextDecor == \/ SetMenu({2})
             \/ Attach({"fd0"})
             \/ RunStart
             \/ PromptInput(PromptFuncs, {"ctx1"})
             \/ ReleasePrompt({S_x})
             \/ Printf
             \/ Hexdump({17})
             \/ InputRead({"TEXT", "NL"}, {S_go, S_x}, MaxLine, 1)

SpecDecor == Init /\ [][NextDecor]_vars

\* ------------------------------------------------------------------ claims
\* the calls of prompt callbacks among the effects e (their context is a user_data)
PromptCalls(e) == SelectSeq(e, LAMBDA v : v.k = "call" /\ v.c \in UserDatas)
\* the calls of command handlers among the effects e
HandlerCalls(e) == SelectSeq(e, LAMBDA v : v.k = "call" /\ v.c \in {"external", "builtin"})
\* the last step completed a non-empty line (the line is op.x)
LineCompleted(o) == o.n = "input_read" /\ o.f \in {"NL", "EOF"} /\ Len(o.x) > 0
\* the last step called bt_shell_release_prompt with a line: directly or
\* from the line-completion pipeline
ReleaseWithInput(o) == o.n = "bt_shell_release_prompt" \/ LineCompleted(o)

\* C1: a prompt request made while one is pending changes nothing (callback,
\* context and line editor stay as they are, nothing is done); the pending
\* record changes only in a step that invokes a prompt callback; and a release
\* with input X while a request is pending invokes exactly one prompt
\* callback: the pending one, with X and the pending context.
C1_PromptExclusive ==
    [][saved_prompt =>
         /\ op'.n = "bt_shell_prompt_input" =>
              /\ UNCHANGED << saved_prompt, saved_func, saved_user_data,
                              rl_prompt_saved, rl_line, rl_point >>
              /\ ev' = << >>
         /\ PromptCalls(ev') = << >> =>
              UNCHANGED << saved_prompt, saved_func, saved_user_data >>
         /\ ReleaseWithInput(op') =>
              /\ Len(PromptCalls(ev')) = 1
              /\ PromptCalls(ev')[1].f = saved_func
              /\ PromptCalls(ev')[1].x = op'.x
              /\ PromptCalls(ev')[1].c = saved_user_data]_vars

\* C1 witness: a request with another callback and context was made while a
\* request was pending, and was dropped
C1_Witness ==
    /\ op.n = "bt_shell_prompt_input"
    /\ saved_prompt
    /\ ev = << >>
    /\ op.f # saved_func
    /\ op.c # saved_user_data

\* C2: bt_shell_release_prompt called while no prompt is pending returns -1,
\* invokes nothing and changes no state; when the call comes from the
\* line-completion pipeline, the failure is the first thing that happens and
\* the same line then goes on to the command dispatcher's tokenizer.
C2_ReleaseIdleFails ==
    [][~saved_prompt =>
         /\ op'.n = "bt_shell_release_prompt" =>
              /\ ret' = "-1"
              /\ ev' = << >>
              /\ UNCHANGED << pc, main_loop, loop_quit, data_input, saved_prompt,
                              saved_func, saved_user_data, menu, terminated,
                              rl_line, rl_point, rl_prompt_saved, history >>
         /\ LineCompleted(op') =>
              /\ ev'[1].k = "ret" /\ ev'[1].c = "-1"
              /\ PromptCalls(ev') = << >>
              /\ Len(Kind(ev', "tok")) = 1
              /\ Kind(ev', "tok")[1].x = op'.x]_vars

\* C2 witness: a completed line met no pending prompt, the release failed and
\* the line was dispatched to a command handler
C2_Witness ==
    /\ LineCompleted(op)
    /\ ev[1].k = "ret" /\ ev[1].c = "-1"
    /\ Len(HandlerCalls(ev)) = 1

\* C3: a bt_shell_set_menu call attaches its table and returns true exactly
\* when no table is attached and the argument is not NULL; every other call
\* returns false and leaves data.menu as it is; once a table is attached no
\* step replaces it.
C3_SetMenuOnce ==
    [][/\ op'.n = "bt_shell_set_menu" =>
            IF menu = NullMenu /\ op'.c # ToString(NullMenu)
            THEN ToString(menu') = op'.c /\ ret' = "true"
            ELSE menu' = menu /\ ret' = "false"
       /\ menu # NullMenu => menu' = menu]_vars

\* C3 witness: a call with another table was refused while a table was attached
C3_Witness ==
    /\ op.n = "bt_shell_set_menu"
    /\ ret = "false"
    /\ menu # NullMenu
    /\ op.c # ToString(menu)
    /\ op.c # ToString(NullMenu)

\* the entries of table named cmd
Named(table, cmd) == {i \in DOMAIN table : table[i].cmd = cmd}
\* those of them that have a handler
Handled(table, cmd) == {i \in Named(table, cmd) : table[i].func # "NULL"}

\* C4 as stated: with a table attached, a dispatched name that is in the
\* external table and is a built-in name invokes the external entry's handler
\* and no built-in handler, a name only in the built-in table invokes the
\* built-in handler, and a name found in a table invokes exactly one handler.
C4_Original ==
    [][(~saved_prompt /\ menu # NullMenu /\ LineCompleted(op')
        /\ TokStart(op'.x) # 0) =>
         LET cmd == strtok_cmd(op'.x)
             inExt == Named(MenuEntries(menu), cmd) # {}
             inBuiltin == Named(default_menu, cmd) # {}
             calls == HandlerCalls(ev')
         IN  /\ (inExt \/ inBuiltin) => Len(calls) = 1
             /\ (inExt /\ inBuiltin) => \A k \in DOMAIN calls : calls[k].c = "external"
             /\ (~inExt /\ inBuiltin) => \A k \in DOMAIN calls : calls[k].c = "builtin"]_vars

\* C4 (amended): with a table attached, a dispatched name invokes the handler
\* of the first external entry of that name that has a handler, and no
\* built-in handler; failing such an entry, a built-in name invokes its
\* built-in handler; a name that is neither invokes no handler at all.
C4_DispatchResolution ==
    [][(~saved_prompt /\ menu # NullMenu /\ LineCompleted(op')
        /\ TokStart(op'.x) # 0) =>
         LET cmd == strtok_cmd(op'.x)
             ext == MenuEntries(menu)
             E == Handled(ext, cmd)
             B == Named(default_menu, cmd)
             calls == HandlerCalls(ev')
         IN  /\ E # {} =>
                   /\ Len(calls) = 1
                   /\ calls[1].c = "external"
                   /\ \E i \in E : (\A k \in E : i <= k) /\ calls[1].f = ext[i].func
             /\ (E = {} /\ B # {}) =>
                   /\ Len(calls) = 1
                   /\ calls[1].c = "builtin"
                   /\ \E j \in B : calls[1].f = default_menu[j].func
             /\ (E = {} /\ B = {}) => calls = << >>]_vars

\* C4 witness: "quit" was dispatched with a table attached that has its own
\* quit entry; the external handler ran and the loop was not asked to quit
C4_Witness ==
    /\ LineCompleted(op)
    /\ op.x = S_quit
    /\ menu # NullMenu
    /\ Handled(MenuEntries(menu), S_quit) # {}
    /\ Len(HandlerCalls(ev)) = 1
    /\ HandlerCalls(ev)[1].c = "external"
    /\ ~loop_quit

\* the listing of the four built-in commands: name and description, in order
BuiltinListing ==
    << << S_version, "Display version" >>,
       << S_quit, "Quit program" >>,
       << S_exit, "Quit program" >>,
       << S_help, "Display help about this program" >> >>

\* the name and description of every menu line printed among the effects e
Listing(e) == [i \in DOMAIN Kind(e, "menu") |->
                 << Kind(e, "menu")[i].x, Kind(e, "menu")[i].f >>]

\* C9 as stated: with no external table attached and no prompt pending, the
\* line "help" lists exactly the four built-ins with their descriptions and
\* the line "quit" asks the run loop to stop.
C9_Original ==
    [][(menu = NullMenu /\ ~saved_prompt /\ LineCompleted(op')) =>
         /\ op'.x = S_help => Listing(ev') = BuiltinListing
         /\ op'.x = S_quit => loop_quit']_vars

\* C9 (amended): with an external table without entries attached and no
\* prompt pending, the line "help" lists exactly the four built-ins with
\* their descriptions and the line "quit" asks the run loop to stop; with no
\* table attached, neither line lists anything or asks the loop to stop.
C9_BuiltinsNeedMenu ==
    [][(~saved_prompt /\ LineCompleted(op')) =>
         /\ (menu # NullMenu /\ MenuEntries(menu) = << >>) =>
              /\ op'.x = S_help => Listing(ev') = BuiltinListing
              /\ op'.x = S_quit => loop_quit' /\ Len(Kind(ev', "quit")) = 1
         /\ (menu = NullMenu /\ op'.x \in {S_help, S_quit}) =>
              /\ Listing(ev') = << >>
              /\ Kind(ev', "quit") = << >>
              /\ loop_quit' = loop_quit]_vars

\* C9 witness: "help" was completed with the entry-less table attached and
\* four menu lines were printed
C9_Witness ==
    /\ LineCompleted(op)
    /\ op.x = S_help
    /\ menu # NullMenu
    /\ MenuEntries(menu) = << >>
    /\ Len(Listing(ev)) = 4

\* C10: when a completed line reaches the command dispatcher while no table
\* is attached, or holds no command token (it has zero length or only
\* spaces), no handler is invoked, nothing is printed and the run loop is not
\* asked to stop.
C10_ExecuteNoop ==
    [][(~saved_prompt /\ op'.n = "input_read" /\ op'.f = "NL"
        /\ (menu = NullMenu \/ TokStart(op'.x) = 0)) =>
         /\ HandlerCalls(ev') = << >>
         /\ Kind(ev', "out") = << >>
         /\ Kind(ev', "menu") = << >>
         /\ Kind(ev', "quit") = << >>
         /\ loop_quit' = loop_quit]_vars

\* C10 witness: "quit" went through the pipeline to the tokenizer with no
\* table attached and the loop was not asked to stop
C10_Witness ==
    /\ LineCompleted(op)
    /\ op.x = S_quit
    /\ menu = NullMenu
    /\ Len(Kind(ev, "tok")) = 1
    /\ ~loop_quit

\* everything of the shell but the record of the last step
ShellState == << pc, main_loop, loop_quit, data_input, saved_prompt, saved_func,
                 saved_user_data, menu, terminated, rl_line, rl_point,
                 rl_prompt_saved, history >>

\* C5: over any sequence of signal deliveries signal_read calls
\* g_main_loop_quit at most once; the first delivery handled as a terminate
\* signal empties the line and asks the loop to quit, exactly once; every
\* later one does nothing at all.
C5_TerminateOnce ==
    /\ [](sig_quits <= 1)
    /\ [][TermDelivery(op') =>
            IF sig_terms = 0
            THEN /\ rl_line' = << >>
                 /\ Len(Kind(ev', "quit")) = 1
                 /\ loop_quit'
            ELSE /\ ev' = << >>
                 /\ UNCHANGED ShellState]_vars

\* C5 witness: a SIGTERM arrived after an earlier terminate signal and was
\* ignored; the handler has asked the loop to quit once
C5_Witness ==
    /\ op.n = "signal_read"
    /\ op.f = "SIGTERM"
    /\ sig_terms = 2
    /\ sig_quits = 1
    /\ ev = << >>

\* C6: SIGINT while an input is bound empties the line, puts the cursor at
\* its start and redraws, asks for no termination and leaves the terminated
\* flag (hence the handling of a later terminate signal) as it was; SIGINT
\* while no input is bound changes the shell exactly as SIGTERM would in the
\* same state: the first such delivery asks the loop to quit once, later
\* ones are ignored.
C6_InterruptPolicy ==
    [][(op'.n = "signal_read" /\ op'.f = "SIGINT") =>
         IF data_input # "NULL"
         THEN /\ rl_line' = << >>
              /\ rl_point' = 0
              /\ Kind(ev', "quit") = << >>
              /\ \E i \in DOMAIN ev' : ev'[i].f = "rl_redisplay"
              /\ UNCHANGED << pc, main_loop, loop_quit, data_input, saved_prompt,
                              saved_func, saved_user_data, menu, terminated,
                              rl_prompt_saved, history, sig_terms, sig_quits >>
         ELSE /\ \E t \in {signal_read(Cur, "SIGTERM")} :
                   /\ ev' = t.ev
                   /\ rl_line' = t.rl_line
                   /\ rl_point' = t.rl_point
                   /\ loop_quit' = t.loop_quit
                   /\ terminated' = t.terminated
              /\ UNCHANGED << pc, main_loop, data_input, saved_prompt, saved_func,
                              saved_user_data, menu, rl_prompt_saved, history >>
              /\ sig_terms = 0 => loop_quit' /\ Len(Kind(ev', "quit")) = 1
              /\ sig_terms # 0 => ev' = << >> /\ loop_quit' = loop_quit]_vars

\* C6 witness: SIGINT found a non-empty line while an input was bound; the
\* line is empty and the loop has not been asked to quit
C6_Witness ==
    /\ op.n = "signal_read"
    /\ op.f = "SIGINT"
    /\ data_input # "NULL"
    /\ Len(op.x) > 0
    /\ rl_line = << >>
    /\ ~loop_quit
    /\ ~terminated

\* the bt_shell_printf call entered at effect i of e returns at effect j
Returns(e, i, j) ==
    /\ i < j
    /\ e[i].k = "enter"
    /\ e[j].k = "leave"
    /\ \A m \in (i + 1)..(j - 1) : e[m].k \notin {"enter", "leave"}

\* C7: every bt_shell_printf call (made by the application, by
\* bt_shell_hexdump or by a prompt callback) returns
\* with the line editor's text and cursor as it found them and writes once;
\* a call made while a line is in progress copies the text and cursor before
\* the write and puts them back after it; bt_shell_printf and
\* bt_shell_hexdump change nothing else of the shell.
C7_LinePreserved ==
    [][/\ \A i \in DOMAIN ev' : ev'[i].k = "enter" =>
            \E j \in DOMAIN ev' :
              /\ Returns(ev', i, j)
              /\ ev'[j].x = ev'[i].x
              /\ ev'[j].p = ev'[i].p
              /\ \E w \in (i + 1)..(j - 1) :
                   /\ ev'[w].k = "out"
                   /\ \A m \in (i + 1)..(j - 1) : ev'[m].k = "out" => m = w
                   /\ op'.n # "input_read" =>
                        /\ \E a \in (i + 1)..(w - 1) :
                             /\ ev'[a].f = "rl_copy_text"
                             /\ ev'[a].x = ev'[i].x
                             /\ ev'[a].p = ev'[i].p
                        /\ \E b \in (w + 1)..(j - 1) :
                             /\ ev'[b].f = "rl_replace_line"
                             /\ ev'[b].x = ev'[i].x
                   /\ op'.n = "input_read" =>
                        \A m \in (i + 1)..(j - 1) : ev'[m].k # "rl"
       /\ op'.n \in {"bt_shell_printf", "bt_shell_hexdump"} =>
            /\ UNCHANGED ShellState
            /\ op'.n = "bt_shell_printf" => Len(Kind(ev', "out")) = 1]_vars

\* C7 witness: bt_shell_printf found a non-empty line with the cursor inside
\* it and no prompt pending, cleared the line for the write, and the line
\* and cursor are as before
C7_Witness ==
    /\ op.n = "bt_shell_printf"
    /\ Len(op.x) > 1
    /\ rl_line = op.x
    /\ rl_point > 0
    /\ rl_point < Len(rl_line)
    /\ \E i \in DOMAIN ev : ev[i].f = "rl_replace_line" /\ ev[i].x = << >>

\* a completed non-empty line that the prompt override did not consume
Dispatched(o) == LineCompleted(o) /\ Len(o.x) > 0

LastEntry(h) == IF Len(h) = 0 THEN << "no entry" >> ELSE h[Len(h)]

\* C8: a line that reaches the dispatch step is appended to the history if
\* and only if it differs from the most recent history entry (as the spec
\* states it): the same line twice in a row leaves one entry, a line equal
\* only to an older entry is recorded again.
C8_Original ==
    [][(Dispatched(op') /\ ~saved_prompt) =>
         history' = IF op'.x # LastEntry(history) THEN Append(history, op'.x)
                    ELSE history]_vars

\* C8, the part the code keeps: a line equal to the most recent history
\* entry is not recorded again.
C8_NoAdjacentDuplicate ==
    [][(Dispatched(op') /\ ~saved_prompt /\ op'.x = LastEntry(history)) =>
         history' = history]_vars

\* C8 witness: a dispatched line that differs from the most recent history
\* entry was left out of the history because an entry starts with it
C8_Witness ==
    /\ Dispatched(op)
    /\ Len(history) > 0
    /\ op.x # LastEntry(history)
    /\ Kind(ev, "hist") = << >>
    /\ Kind(ev, "exec") # << >>
    /\ history_search(history, op.x) = 0

\* the input descriptors created (f is io_new) or destroyed (io_destroy) in e
InputIos(e, f) == SelectSeq(e, LAMBDA v : v.k = "io" /\ v.f = f /\ v.c \in Fds)

\* C11: at most one input descriptor is ever bound: one is created only by a
\* bt_shell_attach that finds none bound, which binds it and returns true,
\* and the bound one is the only one ever destroyed, which leaves none
\* bound; bt_shell_attach while one is bound returns false, creates nothing
\* and leaves the binding; bt_shell_detach while none is bound returns false
\* and does nothing; a successful detach leaves the shell as an attach needs
\* it to succeed.
C11_SingleInput ==
    [][/\ Len(InputIos(ev', "io_new")) + Len(InputIos(ev', "io_destroy")) <= 1
       /\ InputIos(ev', "io_new") # << >> =>
            /\ op'.n = "bt_shell_attach"
            /\ data_input = "NULL"
            /\ data_input' = InputIos(ev', "io_new")[1].c
       /\ InputIos(ev', "io_destroy") # << >> =>
            /\ data_input = InputIos(ev', "io_destroy")[1].c
            /\ data_input' = "NULL"
       /\ (InputIos(ev', "io_new") = << >> /\ InputIos(ev', "io_destroy") = << >>) =>
            data_input' = data_input
       /\ op'.n = "bt_shell_attach" =>
            IF data_input = "NULL"
            THEN ret' = "true" /\ data_input' = op'.c
            ELSE ret' = "false" /\ ev' = << >> /\ UNCHANGED ShellState
       /\ op'.n = "bt_shell_detach" =>
            IF data_input = "NULL"
            THEN ret' = "false" /\ ev' = << >> /\ UNCHANGED ShellState
            ELSE ret' = "true" /\ data_input' = "NULL"]_vars

\* C11 witness: an attach of another descriptor was refused while one was
\* bound, and the binding is the earlier one
C11_Witness ==
    /\ op.n = "bt_shell_attach"
    /\ ret = "false"
    /\ data_input \in Fds
    /\ op.c \in Fds
    /\ op.c # data_input

\* the command names of table that start with text, in table order
Prefixed(table, text) ==
    LET c == SelectSeq(table, LAMBDA e : MatchAt(e.cmd, 1, text))
    IN  [i \in DOMAIN c |-> c[i].cmd]

\* the last step pressed the completion key on a word that starts at column 0
\* (the cursor is at the end of the line op.x)
CompletedAtColumn0(o) ==
    o.n = "input_read" /\ o.f = "TAB" /\ WordStart(o.x, Len(o.x)) = 0

\* C12: the candidates of one completion cycle at column 0 are the built-in
\* command names with the typed prefix, in table order, followed by the
\* external command names with that prefix, in table order (as the spec
\* states it).
C12_Original ==
    [][(CompletedAtColumn0(op') /\ rl_point = Len(rl_line)) =>
         Candidates(ev') = Prefixed(default_menu, op'.x)
                             \o Prefixed(MenuEntries(menu), op'.x)]_vars

\* C12, what the code returns: the built-in names with the prefix when there
\* is one, the external names with the prefix only when no built-in name has
\* it; every cycle starts again at the top of the built-in table.
C12_BuiltinsHideExternals ==
    [][(CompletedAtColumn0(op') /\ rl_point = Len(rl_line)) =>
         /\ Candidates(ev') = IF Prefixed(default_menu, op'.x) # << >>
                              THEN Prefixed(default_menu, op'.x)
                              ELSE Prefixed(MenuEntries(menu), op'.x)
         /\ gen_len' = Len(op'.x)]_vars

\* C12 witness: a completion cycle at column 0 returned built-in names and
\* left out an external name that has the typed prefix
C12_Witness ==
    /\ CompletedAtColumn0(op)
    /\ menu # NullMenu
    /\ Prefixed(MenuEntries(menu), op.x) # << >>
    /\ Candidates(ev) = Prefixed(default_menu, op.x)
    /\ Candidates(ev) # << >>

\* the texts written by the step, in order
Outputs(e) == [i \in DOMAIN Kind(e, "out") |-> Kind(e, "out")[i].f]

\* C13: with a table attached and no prompt pending, a completed line whose
\* command token is in neither table writes "Invalid command" and nothing
\* else, invokes no handler, does not ask the loop to stop and leaves the
\* table, the input binding, the prompt-override record and the life cycle
\* as they were.
C13_UnknownCommand ==
    [][(/\ LineCompleted(op')
        /\ ~saved_prompt
        /\ menu # NullMenu
        /\ TokStart(op'.x) # 0
        /\ Named(MenuEntries(menu), strtok_cmd(op'.x)) = {}
        /\ Named(default_menu, strtok_cmd(op'.x)) = {}) =>
         /\ Outputs(ev') = << "Invalid command" >>
         /\ HandlerCalls(ev') = << >>
         /\ PromptCalls(ev') = << >>
         /\ Kind(ev', "quit") = << >>
         /\ UNCHANGED << pc, main_loop, loop_quit, menu, data_input, saved_prompt,
                         saved_func, saved_user_data, terminated >>]_vars

\* C13 witness: "go" was completed with a table attached that does not name
\* it, and "Invalid command" was written
C13_Witness ==
    /\ LineCompleted(op)
    /\ op.x = S_go
    /\ menu # NullMenu
    /\ Named(MenuEntries(menu), S_go) = {}
    /\ Outputs(ev) = << "Invalid command" >>
    /\ pc = "running"

\* the last step completed a line that holds no command token
BlankCompleted(o) == o.n = "input_read" /\ o.f = "NL" /\ TokStart(o.x) = 0

\* C14: a completed line that is empty after trimming (zero length or spaces
\* only) does not release a pending prompt, is not recorded in the history
\* and is not dispatched (as the spec states it).
C14_Original ==
    [][BlankCompleted(op') =>
         /\ UNCHANGED << saved_prompt, saved_func, saved_user_data, history >>
         /\ PromptCalls(ev') = << >>
         /\ HandlerCalls(ev') = << >>
         /\ Kind(ev', "exec") = << >>]_vars

\* C14 as the code has it: only a zero-length line is discarded before the
\* prompt-override check (nothing is done and nothing changes).  A line of
\* spaces goes on: with a prompt pending it is the answer, delivered once to
\* the pending callback, and is not recorded; with none pending it meets the
\* history test and is recorded unless an entry starts with it.  No blank
\* line is dispatched.
C14_ZeroLengthDiscarded ==
    [][BlankCompleted(op') =>
         /\ HandlerCalls(ev') = << >>
         /\ Kind(ev', "exec") = << >>
         /\ Len(op'.x) = 0 =>
              /\ ev' = << >>
              /\ UNCHANGED << pc, main_loop, loop_quit, data_input, saved_prompt,
                              saved_func, saved_user_data, menu, terminated,
                              rl_prompt_saved, history >>
         /\ (Len(op'.x) > 0 /\ saved_prompt) =>
              /\ Len(PromptCalls(ev')) = 1
              /\ PromptCalls(ev')[1].f = saved_func
              /\ PromptCalls(ev')[1].x = op'.x
              /\ history' = history
         /\ (Len(op'.x) > 0 /\ ~saved_prompt) =>
              /\ PromptCalls(ev') = << >>
              /\ Kind(ev', "out") = << >>
              /\ UNCHANGED << saved_prompt, saved_func, saved_user_data >>
              /\ history' = IF history_search(history, op'.x) = 0 THEN history
                            ELSE Append(history, op'.x)]_vars

\* C14 witness: a line of spaces answered a pending prompt and the prompt is
\* no longer pending
C14_Witness ==
    /\ BlankCompleted(op)
    /\ Len(op.x) > 1
    /\ Len(PromptCalls(ev)) = 1
    /\ PromptCalls(ev)[1].f = "cb_plain"
    /\ PromptCalls(ev)[1].x = op.x
    /\ ~saved_prompt

\* C15: while a prompt is pending, the next completed (non-empty) line goes
\* to the pending callback and nowhere else: the callback is invoked once
\* with the line and the pending context, the line is not recorded in the
\* history, not tokenized and not dispatched, and the loop is not asked to
\* stop; afterwards a prompt is pending only if the callback asked again.
\* With no prompt pending a completed line goes to the dispatcher's
\* tokenizer and to no callback.
C15_InterceptNextLine ==
    [][LineCompleted(op') /\ op'.f = "NL" =>
         IF saved_prompt
         THEN /\ Len(PromptCalls(ev')) = 1
              /\ PromptCalls(ev')[1].f = saved_func
              /\ PromptCalls(ev')[1].x = op'.x
              /\ PromptCalls(ev')[1].c = saved_user_data
              /\ history' = history
              /\ Kind(ev', "hist") = << >>
              /\ Kind(ev', "tok") = << >>
              /\ Kind(ev', "exec") = << >>
              /\ HandlerCalls(ev') = << >>
              /\ Kind(ev', "quit") = << >>
              /\ loop_quit' = loop_quit
              /\ saved_prompt' = (saved_func = "cb_reprompt")
         ELSE /\ PromptCalls(ev') = << >>
              /\ Len(Kind(ev', "tok")) = 1
              /\ Kind(ev', "tok")[1].x = op'.x]_vars

\* C15 witness: "quit" was completed while a prompt was pending with the
\* table attached: the callback got it, the loop was not asked to stop and
\* no prompt is pending any more
C15_Witness ==
    /\ LineCompleted(op)
    /\ op.x = S_quit
    /\ menu # NullMenu
    /\ Len(PromptCalls(ev)) = 1
    /\ PromptCalls(ev)[1].x = S_quit
    /\ ~loop_quit
    /\ ~saved_prompt
    /\ pc = "running"

\* the value bt_shell_release_prompt returned in the last step
ReleaseRet(r, e) ==
    IF Kind(e, "ret") # << >> THEN Kind(e, "ret")[1].c ELSE r

\* the names of the calls of kinds "rl" and "call" made in the step, in order
CallOrder(e) ==
    LET c == SelectSeq(e, LAMBDA v : v.k \in {"rl", "call"})
    IN  [i \in DOMAIN c |-> c[i].f]

\* C16: a release whose pending callback itself asks for a prompt: the
\* pending record is cleared and the decoration restored before the callback
\* runs, so the callback's request is accepted: the callback is invoked
\* once, afterwards a prompt is pending with the callback and context the
\* callback gave, the decoration is saved again, and the release returns 0.
C16_ReleaseReentrant ==
    [][(saved_prompt /\ saved_func = "cb_reprompt" /\ ReleaseWithInput(op')) =>
         /\ CallOrder(ev') = << "rl_restore_prompt", "cb_reprompt",
                                "rl_save_prompt", "rl_message" >>
         /\ Len(PromptCalls(ev')) = 1
         /\ PromptCalls(ev')[1].x = op'.x
         /\ saved_prompt'
         /\ saved_func' = "cb_plain"
         /\ saved_user_data' = saved_user_data
         /\ rl_prompt_saved'
         /\ ReleaseRet(ret', ev') = "0"]_vars

\* C16 witness: the application released a prompt whose callback asked
\* again; the new request is pending and the release returned 0
C16_Witness ==
    /\ op.n = "bt_shell_release_prompt"
    /\ op.x = S_x
    /\ ret = "0"
    /\ Len(PromptCalls(ev)) = 1
    /\ PromptCalls(ev)[1].f = "cb_reprompt"
    /\ saved_prompt
    /\ saved_func = "cb_plain"

\* the teardown calls of the step, in order, each with its argument: prompt
\* callbacks, descriptor creation and destruction, the loop's release and
\* the removal of the line handler
Teardown(e) ==
    LET c == SelectSeq(e, LAMBDA v : \/ v.k \in {"io", "loop"}
                                     \/ v.k = "call" /\ v.c \in UserDatas
                                     \/ v.f = "rl_callback_handler_remove")
    IN  [i \in DOMAIN c |-> << c[i].f, c[i].c >>]

\* C17: bt_shell_run tears down only after the loop was asked to quit, and
\* in this order: a pending prompt is released (its callback invoked once,
\* with the empty string and its context), the bound input descriptor is
\* destroyed, the signal descriptor is destroyed, the loop is released and
\* main_loop cleared, and last rl_cleanup removes the line handler.  The
\* signal descriptor, the loop and the line handler are released in no other
\* step.
C17_TeardownOrder ==
    [][/\ op'.n = "bt_shell_run_exit" =>
            /\ pc = "running" /\ loop_quit /\ pc' = "done"
            /\ Teardown(ev') =
                 (IF saved_prompt THEN << << saved_func, saved_user_data >> >> ELSE << >>)
                 \o (IF data_input # "NULL" THEN << << "io_destroy", data_input >> >>
                     ELSE << >>)
                 \o << << "io_destroy", "signal" >>, << "g_main_loop_unref", "" >>,
                       << "rl_callback_handler_remove", "" >> >>
            /\ \A i \in DOMAIN PromptCalls(ev') : PromptCalls(ev')[i].x = << >>
            /\ ev'[Len(ev')].f = "rl_callback_handler_remove"
            /\ ev'[Len(ev') - 1].f = "rl_message"
            /\ main_loop' = "NULL"
            /\ data_input' = "NULL"
       /\ op'.n # "bt_shell_run_exit" =>
            /\ \A i \in DOMAIN Teardown(ev') :
                 Teardown(ev')[i] \notin {<< "io_destroy", "signal" >>,
                                          << "g_main_loop_unref", "" >>,
                                          << "rl_callback_handler_remove", "" >>}
            /\ main_loop' = main_loop]_vars

\* C17 witness: the loop was left with a prompt pending and a descriptor
\* bound, and the whole teardown ran
C17_Witness ==
    /\ op.n = "bt_shell_run_exit"
    /\ pc = "done"
    /\ Len(Teardown(ev)) = 5
    /\ Len(PromptCalls(ev)) = 1
    /\ PromptCalls(ev)[1].f = "cb_plain"
    /\ main_loop = "NULL"

\* text without one trailing space, if it has one
DropOneSpace(text) ==
    IF text # << >> /\ text[Len(text)] = " " THEN SubSeq(text, 1, Len(text) - 1)
    ELSE text

\* text without its leading spaces
DropLeadingSpaces(text) ==
    LET R == {i \in DOMAIN text : text[i] # " "}
    IN  IF R = {} THEN << >>
        ELSE SubSeq(text, CHOOSE i \in R : \A j \in R : i <= j, Len(text))

\* the last step dispatched the completed line op.x to a command handler
HandlerGot(o, e) == LineCompleted(o) /\ Len(HandlerCalls(e)) = 1

\* C18: the handler of a dispatched line receives the text after the whole
\* run of spaces that follows the command, less one trailing space (as the
\* spec states it).
C18_Original ==
    [][HandlerGot(op', ev') =>
         \E i \in DOMAIN op'.x, j \in 1..(Len(op'.x) + 1) :
           /\ i < j
           /\ \A k \in 1..(i - 1) : op'.x[k] = " "
           /\ \A k \in i..(j - 1) : op'.x[k] # " "
           /\ j <= Len(op'.x) => op'.x[j] = " "
           /\ HandlerCalls(ev')[1].x =
                DropOneSpace(DropLeadingSpaces(SubSeq(op'.x, j, Len(op'.x))))]_vars

\* C18 as the code has it: the spaces before the command are skipped, the
\* command is the text up to the next space, and the handler receives the
\* text after that one space (the further spaces of the run are part of
\* it), less one trailing space; the empty string when no space follows the
\* command.
C18_SplitAtFirstSpace ==
    [][HandlerGot(op', ev') =>
         \E i \in DOMAIN op'.x, j \in 1..(Len(op'.x) + 1) :
           /\ i < j
           /\ \A k \in 1..(i - 1) : op'.x[k] = " "
           /\ \A k \in i..(j - 1) : op'.x[k] # " "
           /\ j <= Len(op'.x) => op'.x[j] = " "
           /\ Kind(ev', "exec")[1].x = SubSeq(op'.x, i, j - 1)
           /\ HandlerCalls(ev')[1].x =
                DropOneSpace(SubSeq(op'.x, j + 1, Len(op'.x)))]_vars

\* C18 witness: "x  x" was dispatched and the handler of x received " x"
C18_Witness ==
    /\ HandlerGot(op, ev)
    /\ op.x = << "x", " ", " ", "x" >>
    /\ HandlerCalls(ev)[1].f = "ext_print"
    /\ HandlerCalls(ev)[1].x = << " ", "x" >>

\* the rl_save_prompt and rl_restore_prompt calls of the step, in order
Decorations(e) ==
    LET c == SelectSeq(e, LAMBDA v : v.f \in {"rl_save_prompt", "rl_restore_prompt"})
    IN  [i \in DOMAIN c |-> c[i].f]

\* d never saves while a save is outstanding and never restores without
\* one; out says whether a save is outstanding before d[1]
Alternate(d, out) ==
    \A i \in DOMAIN d : (d[i] = "rl_save_prompt") = (out = (i % 2 = 0))

\* C19: rl_save_prompt is never called while an earlier save is outstanding
\* and rl_restore_prompt never without one, inside every call and from call
\* to call; between calls a save is outstanding exactly while a prompt is
\* pending; a bt_shell_printf or bt_shell_hexdump call made while a prompt
\* is pending calls neither.
C19_DecorationAlternates ==
    [][/\ rl_prompt_saved = saved_prompt
       /\ rl_prompt_saved' = saved_prompt'
       /\ Alternate(Decorations(ev'), rl_prompt_saved)
       /\ rl_prompt_saved' = (rl_prompt_saved = (Len(Decorations(ev')) % 2 = 0))
       /\ (saved_prompt /\ op'.n \in {"bt_shell_printf", "bt_shell_hexdump"}) =>
            /\ Decorations(ev') = << >>
            /\ Kind(ev', "out") # << >>]_vars

\* C19 witness: a released callback printed: the decoration was restored by
\* the release, then saved and restored again by the print
C19_Witness ==
    /\ op.n = "bt_shell_release_prompt"
    /\ PromptCalls(ev) # << >>
    /\ PromptCalls(ev)[1].f = "cb_print"
    /\ Decorations(ev) = << "rl_restore_prompt", "rl_save_prompt", "rl_restore_prompt" >>
    /\ ~rl_prompt_saved

\* C20: when bt_shell_run has returned no prompt is pending, no callback or
\* context is stored and no input descriptor is bound (as the spec states
\* it).
C20_Original ==
    pc = "done" =>
      /\ ~saved_prompt
      /\ saved_func = "NULL"
      /\ saved_user_data = "NULL"
      /\ data_input = "NULL"

\* C20, the part the code keeps: when bt_shell_run has returned no input
\* descriptor is bound, and a prompt is pending only if the callback
\* released by the teardown asked for one.
C20_CleanUnlessAskedAgain ==
    pc = "done" =>
      /\ data_input = "NULL"
      /\ saved_prompt =>
           /\ PromptCalls(ev) # << >>
           /\ PromptCalls(ev)[1].f = "cb_reprompt"

\* C20 witness: the teardown released a prompt whose callback asked again,
\* and bt_shell_run returned with that request pending
C20_Witness ==
    /\ pc = "done"
    /\ op.n = "bt_shell_run_exit"
    /\ Len(PromptCalls(ev)) = 1
    /\ PromptCalls(ev)[1].f = "cb_reprompt"
    /\ PromptCalls(ev)[1].x = << >>
    /\ saved_prompt
    /\ saved_func = "cb_plain"
    /\ rl_prompt_saved

============================================================================
